---- MODULE Spec2Model ----
(***************************************************************************)
(* A model of src/ffmpeg_tool.py: the five Griptape tool activities        *)
(*   VideoInfoTool.get_video_info                                          *)
(*   VideoSegmentCalculatorTool.calculate_segments                         *)
(*   VideoSplitterTool.split_video                                         *)
(*   AudioExtractorTool.extract_audio                                      *)
(*   VideoTimecodeOverlayTool.add_timecode_overlay                         *)
(* over a file system (the set of existing paths) and an external          *)
(* ffmpeg/ffprobe process whose outcome is nondeterministic.               *)
(*                                                                         *)
(* Numbers.  calculate_segments computes with Python floats, which are     *)
(* IEEE-754 doubles: every arithmetic result is rounded to MantBits        *)
(* significant bits, ties to even.  The model computes exactly that.  A    *)
(* float is a sign and a magnitude counted in units of 2^-FracBits         *)
(* seconds, the magnitude an unsigned integer of NLimbs limbs in base      *)
(* Base, most significant limb first (TLC's integers are 32 bits wide).    *)
(* All the floats of the model lie in [2^-5, 32) or are 0, where a double  *)
(* is a whole number of units, so the representation is exact.             *)
(*                                                                         *)
(* Paths and names are sequences of one-character strings, so that         *)
(* os.path.splitext, os.path.split, os.path.join, str.lower and            *)
(* str.endswith are computed character by character as Python does.        *)
(***************************************************************************)
EXTENDS Integers, Sequences, FiniteSets, TLC

(***************************************************************************)
(* Python float arithmetic                                                 *)
(***************************************************************************)
RECURSIVE Pow2(_)
Pow2(n) == IF n = 0 THEN 1 ELSE 2 * Pow2(n - 1)

\* the significand of a double
MantBits == 53
\* the representation: the unit, and the limbs of a magnitude
FracBits == 58
NLimbs == 5
LimbBits == 16
Base == Pow2(LimbBits)

Limbs == 1..NLimbs
NZero == [i \in Limbs |-> 0]
NOne == [i \in Limbs |-> IF i = NLimbs THEN 1 ELSE 0]

RECURSIVE AddCarry(_, _, _)
AddCarry(a, b, i) ==
    IF i > NLimbs THEN 0 ELSE (a[i] + b[i] + AddCarry(a, b, i + 1)) \div Base
NAdd(a, b) == [i \in Limbs |-> (a[i] + b[i] + AddCarry(a, b, i + 1)) % Base]

RECURSIVE SubBorrow(_, _, _)
SubBorrow(a, b, i) ==
    IF i > NLimbs THEN 0
    ELSE IF a[i] - b[i] - SubBorrow(a, b, i + 1) < 0 THEN 1 ELSE 0
\* a - b for a >= b
NSub(a, b) == [i \in Limbs |-> (a[i] - b[i] - SubBorrow(a, b, i + 1) + Base) % Base]

NLess(a, b) == \E i \in Limbs : a[i] < b[i] /\ \A j \in 1..(i - 1) : a[j] = b[j]

RECURSIVE MulCarry(_, _, _)
MulCarry(a, k, i) ==
    IF i > NLimbs THEN 0 ELSE (a[i] * k + MulCarry(a, k, i + 1)) \div Base
\* a * k for a small natural k
NMulSmall(a, k) == [i \in Limbs |-> (a[i] * k + MulCarry(a, k, i + 1)) % Base]

RECURSIVE DivRem(_, _, _)
DivRem(a, k, i) == IF i = 0 THEN 0 ELSE (DivRem(a, k, i - 1) * Base + a[i]) % k
\* floor(a / k) and a mod k for a small positive k
NDivSmall(a, k) == [i \in Limbs |-> (DivRem(a, k, i - 1) * Base + a[i]) \div k]
NModSmall(a, k) == DivRem(a, k, NLimbs)

RECURSIVE BitLenInt(_)
BitLenInt(x) == IF x = 0 THEN 0 ELSE 1 + BitLenInt(x \div 2)
BitLen(a) ==
    IF a = NZero THEN 0
    ELSE LET top == CHOOSE i \in Limbs : a[i] # 0 /\ \A j \in 1..(i - 1) : a[j] = 0
         IN  LimbBits * (NLimbs - top) + BitLenInt(a[top])

\* The magnitude a (plus, when sticky, a nonzero fraction of a unit below it)
\* rounded to MantBits significant bits, ties to even.
RoundSig(a, sticky) ==
    LET len == BitLen(a)
    IN  IF len <= MantBits THEN a
        ELSE LET s == len - MantBits
                 q == NDivSmall(a, Pow2(s))
                 r == NModSmall(a, Pow2(s))
                 half == Pow2(s - 1)
                 up == \/ r > half
                       \/ r = half /\ (sticky \/ q[NLimbs] % 2 = 1)
             IN  NMulSmall(IF up THEN NAdd(q, NOne) ELSE q, Pow2(s))

Fl(neg, m) == [neg |-> neg /\ m # NZero, m |-> m]
FZero == Fl(FALSE, NZero)
\* n * 2^-k seconds for small naturals n and k: exact as a double
Dyadic(n, k) ==
    Fl(FALSE, [i \in Limbs |-> IF i = NLimbs - (FracBits \div LimbBits)
                               THEN n * Pow2((FracBits % LimbBits) - k) ELSE 0])
FNeg(x) == Fl(~x.neg, x.m)
FromInt(n) == IF n < 0 THEN FNeg(Dyadic(-n, 0)) ELSE Dyadic(n, 0)

FLess(x, y) ==
    IF x.neg # y.neg THEN x.neg
    ELSE IF x.neg THEN NLess(y.m, x.m) ELSE NLess(x.m, y.m)
FMin(x, y) == IF FLess(y, x) THEN y ELSE x

\* x + y before rounding, and Python's float x + y
ExactAdd(x, y) ==
    IF x.neg = y.neg THEN Fl(x.neg, NAdd(x.m, y.m))
    ELSE IF NLess(x.m, y.m) THEN Fl(y.neg, NSub(y.m, x.m))
    ELSE Fl(x.neg, NSub(x.m, y.m))
FAdd(x, y) == LET e == ExactAdd(x, y) IN Fl(e.neg, RoundSig(e.m, FALSE))
\* Python's i * x for an int i >= 0 and a float x
FMulInt(i, x) == Fl(x.neg, RoundSig(NMulSmall(x.m, i), FALSE))
\* Python's x / n for a float x and an int n # 0
FDivInt(x, n) ==
    LET k == IF n < 0 THEN -n ELSE n
    IN  Fl(x.neg # (n < 0), RoundSig(NDivSmall(x.m, k), NModSmall(x.m, k) # 0))

(***************************************************************************)
(* Python strings and os.path (posix) on sequences of characters           *)
(***************************************************************************)
\* The absent optional parameter: dict.get returns None
None == <<"None">>

LowerChar(c) == CASE c = "M" -> "m" [] c = "P" -> "p" [] OTHER -> c
Lower(s) == [i \in 1..Len(s) |-> LowerChar(s[i])]
EndsWith(s, suffix) ==
    /\ Len(s) >= Len(suffix)
    /\ SubSeq(s, Len(s) - Len(suffix) + 1, Len(s)) = suffix
\* str.rfind, counted from 1: 0 when c does not occur
RFind(s, c) ==
    IF \E i \in 1..Len(s) : s[i] = c
    THEN CHOOSE i \in 1..Len(s) : s[i] = c /\ \A j \in (i + 1)..Len(s) : s[j] # c
    ELSE 0

\* os.path.splitext: the extension starts at the last dot of the last
\* component, unless only dots precede it there
splitext(p) ==
    LET sepIndex == RFind(p, "/")
        dotIndex == RFind(p, ".")
    IN  IF /\ dotIndex > sepIndex
           /\ \E j \in (sepIndex + 1)..(dotIndex - 1) : p[j] # "."
        THEN <<SubSeq(p, 1, dotIndex - 1), SubSeq(p, dotIndex, Len(p))>>
        ELSE <<p, <<>>>>

RECURSIVE RStripSep(_)
RStripSep(s) ==
    IF s # <<>> /\ s[Len(s)] = "/" THEN RStripSep(SubSeq(s, 1, Len(s) - 1)) ELSE s
\* os.path.split
split(p) ==
    LET i == RFind(p, "/")
        head == SubSeq(p, 1, i)
        tail == SubSeq(p, i + 1, Len(p))
    IN  IF head # <<>> /\ \E j \in 1..Len(head) : head[j] # "/"
        THEN <<RStripSep(head), tail>>
        ELSE <<head, tail>>
\* os.path.join of two parts
join(a, b) ==
    IF b # <<>> /\ b[1] = "/" THEN b
    ELSE IF a = <<>> \/ a[Len(a)] = "/" THEN a \o b
    ELSE a \o <<"/">> \o b

Digit(d) == CASE d = 0 -> "0" [] d = 1 -> "1" [] d = 2 -> "2" [] d = 3 -> "3"
              [] d = 4 -> "4" [] d = 5 -> "5" [] d = 6 -> "6" [] d = 7 -> "7"
              [] d = 8 -> "8" [] d = 9 -> "9"
\* f'{i:02}' for 1 <= i <= 99
Fmt02(i) == <<Digit(i \div 10), Digit(i % 10)>>

Mp3 == <<".", "m", "p", "3">>
Mp4 == <<".", "m", "p", "4">>
SegmentToken == <<"s", "e", "g", "m", "e", "n", "t">>
TimecodedToken == <<"_", "t", "i", "m", "e", "c", "o", "d", "e", "d">>

(***************************************************************************)
(* Bounds and inputs                                                       *)
(***************************************************************************)
\* Calls made in one behaviour
MaxCalls == 1
\* Iterations of the fixed-length loop that the model follows
MaxSegs == 12
\* The largest int passed as value
MaxCount == 9

\* float.hex(0.1) = 0x1.999999999999ap-4, that is 0x66666666666668 units
Tenth == Fl(FALSE, <<0, 102, 26214, 26214, 26216>>)
Durations == {Dyadic(1, 0), Dyadic(7, 0), Dyadic(10, 0), FZero, FromInt(-5)}
Methods == {"equal", "duration", "bogus", ""}
IntVal(n) == [int |-> TRUE, n |-> n, f |-> FromInt(n)]
FloatVal(x) == [int |-> FALSE, n |-> 0, f |-> x]
Values ==
    {IntVal(n) : n \in -1..MaxCount}
    \cup {FloatVal(x) : x \in {Tenth, Dyadic(5, 1), Dyadic(4, 0), Dyadic(7, 0),
                               FZero, FromInt(-1)}}

\* The files on disk at the start, and the source paths asked for (one is not on disk)
InitialFiles ==
    {<<"a">> \o Mp4, <<"a">> \o Mp3, <<"d", "/", "c">> \o Mp4,
     <<"b">> \o Mp3, <<"a">> \o TimecodedToken \o Mp4}
Movs == InitialFiles \cup {<<"n">> \o Mp4}
AudioNames ==
    {None, <<>>, <<"b">>, <<"b">> \o Mp3, <<"b">> \o Mp3 \o <<".", "M", "P", "3">>, Mp3}
SuffixNames == {None, <<>>, <<"x">>}
Seg(a, b) == [start |-> FromInt(a), end |-> FromInt(b)]
SegmentLists == {<<>>, <<Seg(0, 5)>>, <<Seg(0, 5), Seg(5, 10)>>}
\* What running the external tool can do: exit 0, exit non-zero, or fail to
\* start (subprocess.run raises OSError)
RunOutcomes == {"exit0", "nonzero", "oserror"}

(***************************************************************************)
(* State                                                                   *)
(***************************************************************************)
VARIABLES
    pc,        \* "idle", or the loop a call is in: "while" (calculate_segments), "strip" (extract_audio)
    call,      \* the parameters of the current (or last) call, and the disk as it found it
    start,     \* calculate_segments: start
    segments,  \* calculate_segments: segments
    out_name,  \* extract_audio: out_name
    fs,        \* the paths that exist on disk
    events,    \* the os.remove and subprocess.run calls of the current (or last) call, in order
    result,    \* what the last call returned or raised
    ncalls

vars == <<pc, call, start, segments, out_name, fs, events, result, ncalls>>

NoCall ==
    [op |-> "none", mov |-> <<>>, existed |-> TRUE, disk |-> {}, out_name |-> None,
     segments |-> <<>>,
     duration |-> FZero, method |-> "", value |-> IntVal(0)]
Result(op, kind, msg, segs, files) ==
    [op |-> op, kind |-> kind, msg |-> msg, segments |-> segs, files |-> files]
\* ErrorArtifact, InfoArtifact / TextArtifact, and an exception that leaves the activity
Error(op, msg) == Result(op, "error", msg, <<>>, <<>>)
Raised(op, msg) == Result(op, "exception", msg, <<>>, <<>>)
NoResult == Result("none", "none", "", <<>>, <<>>)

Init ==
    /\ pc = "idle"
    /\ call = NoCall
    /\ start = FZero
    /\ segments = <<>>
    /\ out_name = None
    /\ fs = InitialFiles
    /\ events = <<>>
    /\ result = NoResult
    /\ ncalls = 0

(***************************************************************************)
(* VideoSegmentCalculatorTool.calculate_segments                           *)
(***************************************************************************)
\* Python truth of the three inputs
Falsy(duration, method, value) == duration = FZero \/ method = "" \/ value.f = FZero

\* the "equal" branch for an int value
EqualSegments(duration, num_segments) ==
    LET segment_duration == FDivInt(duration, num_segments)
    IN  [k \in 1..num_segments |->
            LET s == FMulInt(k - 1, segment_duration)
            IN  [start |-> s, end |-> FMin(FAdd(s, segment_duration), duration)]]

CalculateSegments(duration, method, value) ==
    /\ pc = "idle"
    /\ ncalls < MaxCalls
    /\ ncalls' = ncalls + 1
    /\ call' = [NoCall EXCEPT !.op = "calculate_segments", !.duration = duration,
                              !.method = method, !.value = value]
    /\ events' = <<>>
    /\ start' = FZero
    /\ segments' = <<>>
    /\ UNCHANGED <<out_name, fs>>
    /\ IF Falsy(duration, method, value)
       THEN pc' = "idle" /\ result' = Error("calculate_segments", "MissingInputs")
       ELSE IF method = "equal"
       THEN /\ pc' = "idle"
            /\ result' = IF value.int
                         THEN Result("calculate_segments", "info", "segments",
                                     EqualSegments(duration, value.n), <<>>)
                         \* range(num_segments) of a float
                         ELSE Raised("calculate_segments", "TypeError")
       ELSE IF method = "duration"
       THEN pc' = "while" /\ result' = NoResult
       ELSE pc' = "idle" /\ result' = Error("calculate_segments", "InvalidMethod")

\* one test of "while start < duration" and the body or the return that follows
WhileStep ==
    /\ pc = "while"
    /\ LET segment_duration == call.value.f
       IN  IF FLess(start, call.duration)
           THEN /\ Len(segments) < MaxSegs
                /\ segments' = Append(segments,
                       [start |-> start,
                        end |-> FMin(FAdd(start, segment_duration), call.duration)])
                /\ start' = FAdd(start, segment_duration)
                /\ UNCHANGED <<pc, result>>
           ELSE /\ pc' = "idle"
                /\ result' = Result("calculate_segments", "info", "segments", segments, <<>>)
                /\ UNCHANGED <<start, segments>>
    /\ UNCHANGED <<call, out_name, fs, events, ncalls>>

(***************************************************************************)
(* The file system and the external process                                *)
(***************************************************************************)
\* os.path.exists
Exists(path, files) == path \in files
\* "if not os.path.exists(mov)": the first test of every activity that takes a source
SourceMissingSkipped(mov, files) == FALSE
SourceMissing(mov, files) == ~Exists(mov, files)

RemoveEv(path) == [ev |-> "remove", tool |-> "os", path |-> path, outcome |-> "-"]
RunEv(tool, path, outcome) == [ev |-> "run", tool |-> tool, path |-> path, outcome |-> outcome]
\* ffmpeg cannot exit 0 on a source that is not there
Outcome(o, mov, files) == IF o = "exit0" /\ ~Exists(mov, files) THEN "nonzero" ELSE o

\* "if os.path.exists(out): os.remove(out)" and then subprocess.run(cmd) writing out:
\* the disk and the events after them
Overwrite(mov, out, o, files, evs) ==
    LET cleared == IF Exists(out, files) THEN files \ {out} ELSE files
        removed == IF Exists(out, files) THEN Append(evs, RemoveEv(out)) ELSE evs
        got == Outcome(o, mov, cleared)
    IN  [fs |-> IF got = "exit0" THEN cleared \cup {out} ELSE cleared,
         events |-> Append(removed, RunEv("ffmpeg", out, got)),
         outcome |-> got]

FileCall(op, mov, name, segs) ==
    [NoCall EXCEPT !.op = op, !.mov = mov, !.existed = Exists(mov, fs), !.disk = fs,
                   !.out_name = name, !.segments = segs]

(***************************************************************************)
(* VideoInfoTool.get_video_info                                            *)
(***************************************************************************)
GetVideoInfo(mov, o) ==
    /\ pc = "idle"
    /\ ncalls < MaxCalls
    /\ ncalls' = ncalls + 1
    /\ call' = FileCall("get_video_info", mov, None, <<>>)
    /\ UNCHANGED <<pc, start, segments, out_name, fs>>
    /\ IF SourceMissing(mov, fs)
       THEN events' = <<>> /\ result' = Error("get_video_info", "NotFound")
       ELSE /\ events' = <<RunEv("ffprobe", mov, o)>>
            \* float(result.stdout.strip()) of anything but a number, or an OSError
            \* of subprocess.run: "except Exception"
            /\ result' = IF o = "exit0"
                         THEN Result("get_video_info", "info", "duration", <<>>, <<>>)
                         ELSE Error("get_video_info", "ExternalFailure")

(***************************************************************************)
(* VideoSplitterTool.split_video                                           *)
(***************************************************************************)
SplitOut(mov, name, i, n) ==
    LET pe == splitext(mov)
        pn == split(pe[1])
        ext == pe[2]
        sfx == IF n > 1 THEN <<"_">> \o Fmt02(i) \o ext ELSE ext
    IN  join(pn[1], pn[2] \o <<"_">> \o name \o sfx)

\* the for loop from segment i on; st is the disk, the events and the output
\* files so far, and whether subprocess.run raised
RECURSIVE SplitLoop(_, _, _, _, _, _)
SplitLoop(mov, name, n, outs, i, st) ==
    IF i > n \/ st.raised THEN st
    ELSE LET out == SplitOut(mov, name, i, n)
             w == Overwrite(mov, out, outs[i], st.fs, st.events)
         IN  SplitLoop(mov, name, n, outs, i + 1,
                 [fs |-> w.fs, events |-> w.events,
                  files |-> IF w.outcome = "oserror" THEN st.files
                            ELSE Append(st.files, out),
                  raised |-> w.outcome = "oserror"])

SplitVideo(mov, segs, name, outs) ==
    /\ pc = "idle"
    /\ ncalls < MaxCalls
    /\ ncalls' = ncalls + 1
    /\ call' = FileCall("split_video", mov, name, segs)
    /\ UNCHANGED <<pc, start, segments, out_name>>
    /\ IF SourceMissing(mov, fs)
       THEN /\ result' = Error("split_video", "NotFound")
            /\ events' = <<>>
            /\ fs' = fs
       ELSE IF segs = <<>>
       THEN /\ result' = Error("split_video", "NoSegments")
            /\ events' = <<>>
            /\ fs' = fs
       ELSE LET given == IF name = None THEN SegmentToken ELSE name
                end == SplitLoop(mov, given, Len(segs), outs, 1,
                           [fs |-> fs, events |-> <<>>, files |-> <<>>, raised |-> FALSE])
            IN  /\ fs' = end.fs
                /\ events' = end.events
                \* the exit status of ffmpeg is not looked at
                /\ result' = IF end.raised THEN Raised("split_video", "OSError")
                             ELSE Result("split_video", "text", "ClipsCreated", <<>>, end.files)

(***************************************************************************)
(* AudioExtractorTool.extract_audio                                        *)
(***************************************************************************)
ExtractAudio(mov, name) ==
    /\ pc = "idle"
    /\ ncalls < MaxCalls
    /\ ncalls' = ncalls + 1
    /\ call' = FileCall("extract_audio", mov, name, <<>>)
    /\ events' = <<>>
    /\ UNCHANGED <<start, segments, fs>>
    /\ IF SourceMissing(mov, fs)
       THEN pc' = "idle" /\ result' = Error("extract_audio", "NotFound") /\ out_name' = out_name
       ELSE pc' = "strip" /\ result' = NoResult /\ out_name' = name

AudioOut(mov, name) ==
    LET stb == splitext(mov)[1]
        pn == split(stb)
    IN  IF name = <<>> THEN join(pn[1], pn[2] \o Mp3) ELSE join(pn[1], name \o Mp3)

\* one turn of "while True", and after the break the rest of the activity
StripStep ==
    /\ pc = "strip"
    /\ UNCHANGED <<call, start, segments, ncalls>>
    /\ IF out_name = None
       \* None.lower()
       THEN /\ pc' = "idle"
            /\ result' = Raised("extract_audio", "AttributeError")
            /\ UNCHANGED <<out_name, fs, events>>
       ELSE IF EndsWith(Lower(out_name), Mp3)
       THEN /\ out_name' = splitext(out_name)[1]
            /\ UNCHANGED <<pc, result, fs, events>>
       ELSE \E o \in RunOutcomes :
               LET out == AudioOut(call.mov, out_name)
                   w == Overwrite(call.mov, out, o, fs, events)
               IN  /\ pc' = "idle"
                   /\ fs' = w.fs
                   /\ events' = w.events
                   /\ out_name' = out_name
                   /\ result' = IF w.outcome = "exit0"
                                THEN Result("extract_audio", "text", "AudioExtracted", <<>>, <<out>>)
                                ELSE IF w.outcome = "nonzero"
                                \* check=True: CalledProcessError, which is caught
                                THEN Error("extract_audio", "ExternalFailure")
                                ELSE Raised("extract_audio", "OSError")

(***************************************************************************)
(* VideoTimecodeOverlayTool.add_timecode_overlay                           *)
(***************************************************************************)
OverlayOut(mov, name) ==
    LET pe == splitext(mov)
        pn == split(pe[1])
    IN  join(pn[1], pn[2] \o name \o pe[2])

AddTimecodeOverlay(mov, name, o) ==
    /\ pc = "idle"
    /\ ncalls < MaxCalls
    /\ ncalls' = ncalls + 1
    /\ call' = FileCall("add_timecode_overlay", mov, name, <<>>)
    /\ UNCHANGED <<pc, start, segments, out_name>>
    /\ IF SourceMissing(mov, fs)
       THEN /\ result' = Error("add_timecode_overlay", "NotFound")
            /\ events' = <<>>
            /\ fs' = fs
       ELSE LET out == OverlayOut(mov, IF name = None THEN TimecodedToken ELSE name)
                w == Overwrite(mov, out, o, fs, <<>>)
            IN  /\ fs' = w.fs
                /\ events' = w.events
                /\ result' = IF w.outcome = "exit0"
                             THEN Result("add_timecode_overlay", "text", "OverlayAdded", <<>>, <<out>>)
                             ELSE IF w.outcome = "nonzero"
                             THEN Error("add_timecode_overlay", "ExternalFailure")
                             ELSE Raised("add_timecode_overlay", "OSError")

Next ==
    \/ \E d \in Durations, m \in Methods, v \in Values : CalculateSegments(d, m, v)
    \/ WhileStep
    \/ \E mov \in Movs, o \in RunOutcomes : GetVideoInfo(mov, o)
    \/ \E mov \in Movs, segs \in SegmentLists, name \in SuffixNames :
          \E outs \in [1..Len(segs) -> RunOutcomes] : SplitVideo(mov, segs, name, outs)
    \/ \E mov \in Movs, name \in AudioNames : ExtractAudio(mov, name)
    \/ StripStep
    \/ \E mov \in Movs, name \in SuffixNames, o \in RunOutcomes : AddTimecodeOverlay(mov, name, o)

Spec == Init /\ [][Next]_vars

(***************************************************************************)
(* Properties                                                              *)
(***************************************************************************)
\* x - y and i * x without rounding
ExactSub(x, y) == ExactAdd(x, FNeg(y))
ExactMulInt(i, x) == Fl(x.neg, NMulSmall(x.m, i))

IsPlan == call.op = "calculate_segments"
Positive(x) == FLess(FZero, x)
ValidEqual ==
    /\ IsPlan /\ call.method = "equal" /\ Positive(call.duration)
    /\ call.value.int /\ call.value.n >= 1
ValidFixed ==
    /\ IsPlan /\ call.method = "duration" /\ Positive(call.duration)
    /\ Positive(call.value.f)
Returned == pc = "idle" /\ result.op = call.op
FileOps == {"get_video_info", "split_video", "extract_audio", "add_timecode_overlay"}
Runs == {i \in 1..Len(events) : events[i].ev = "run"}
Removes == {i \in 1..Len(events) : events[i].ev = "remove"}

Contiguous(segs) == \A i \in 1..(Len(segs) - 1) : segs[i].end = segs[i + 1].start
Partitions(segs, duration) ==
    /\ segs # <<>>
    /\ segs[1].start = FZero
    /\ Contiguous(segs)
    /\ segs[Len(segs)].end = duration

\* C1: for a duration > 0 and a valid method, the segments returned partition
\* [0, duration): the first starts at 0, each ends where the next starts, and the
\* last ends at duration.
CoverageInvariant ==
    (ValidEqual \/ ValidFixed) /\ Returned =>
        result.kind = "info" /\ Partitions(result.segments, call.duration)

\* C2: for duration > 0 and length > 0 the "duration" method returns
\* N = ceil(duration / length) segments, that is (N-1) * length < duration <= N * length;
\* all but the last are exactly length long; the last is duration - (N-1) * length
\* long, more than 0 and at most length; length >= duration gives the one segment
\* (0, duration).
FixedLengthCount ==
    ValidFixed /\ Returned =>
        /\ result.kind = "info"
        /\ LET segs == result.segments
               n == Len(segs)
               length == call.value.f
               len(i) == ExactSub(segs[i].end, segs[i].start)
           IN  /\ n >= 1
               /\ FLess(ExactMulInt(n - 1, length), call.duration)
               /\ ~FLess(ExactMulInt(n, length), call.duration)
               /\ \A i \in 1..(n - 1) : len(i) = length
               /\ len(n) = ExactSub(call.duration, ExactMulInt(n - 1, length))
               /\ Positive(len(n)) /\ ~FLess(length, len(n))
               /\ (~FLess(length, call.duration) =>
                       segs = <<[start |-> FZero, end |-> call.duration]>>)

\* C3: for duration > 0 and an int count >= 1 the "equal" method returns exactly
\* count segments, contiguous, with strictly increasing starts and ends, none empty,
\* the last ending at duration.  (That each is duration / count long is left out:
\* a float result can only be that up to rounding.)
EqualPartsShape ==
    ValidEqual /\ Returned =>
        /\ result.kind = "info"
        /\ LET segs == result.segments
           IN  /\ Len(segs) = call.value.n
               /\ Contiguous(segs)
               /\ \A i \in 1..Len(segs) : FLess(segs[i].start, segs[i].end)
               /\ \A i \in 1..(Len(segs) - 1) :
                      /\ FLess(segs[i].start, segs[i + 1].start)
                      /\ FLess(segs[i].end, segs[i + 1].end)
               /\ segs[Len(segs)].end = call.duration

\* C4: a duration of 0 or less, an "equal" count of 0 or less, or a "duration"
\* length of 0 or less always ends in an error result with no segments, and never
\* in a success result.
InvalidPlanInput ==
    /\ IsPlan
    /\ \/ ~Positive(call.duration)
       \/ call.method = "equal" /\ call.value.int /\ call.value.n <= 0
       \/ call.method = "duration" /\ ~Positive(call.value.f)
InvalidInputRejected ==
    InvalidPlanInput /\ Returned =>
        result.kind = "error" /\ result.segments = <<>>

\* C5: calculate_segments returns on every input: the fixed-length loop never runs
\* forever.  The loop "while start < duration: ...; start += segment_duration" is
\* deterministic in start, and float addition is monotonic, so it ends exactly when
\* every turn it takes moves start up: a turn that leaves start where it is, or
\* lower, is followed by turns that never bring it past that value.
PlannerTerminates ==
    pc = "while" /\ FLess(start, call.duration) =>
        FLess(start, FAdd(start, call.value.f))

\* C6: every failure of every operation is returned as an error result; no
\* exception leaves an operation.
NoExceptionEscapes == result.kind # "exception"

\* C7: an operation that reports success ran the external tool with exit status 0
\* for every unit of work it lists.
AllOrNothing ==
    call.op \in FileOps /\ Returned /\ result.kind \in {"text", "info"} =>
        \A i \in Runs : events[i].outcome = "exit0"

\* C8: when the source path does not exist, the operation returns the NotFound
\* error, and no process has been run and no file removed.
NotFoundFirst ==
    call.op \in FileOps /\ ~call.existed =>
        /\ pc = "idle"
        /\ result = Error(call.op, "NotFound")
        /\ events = <<>>
        /\ fs = call.disk
NotFoundReturned ==
    /\ call.op = "extract_audio" /\ ~call.existed
    /\ result.msg = "NotFound"

\* C9: the loop that strips a trailing ".mp3" (in any case) from the requested
\* name ends, also for the name ".mp3", and the destination then ends in exactly
\* one ".mp3".  The loop is deterministic in out_name, so it ends exactly when every
\* stripping turn shortens the name.
ExtensionStrippingTerminates ==
    /\ pc = "strip" /\ out_name # None /\ EndsWith(Lower(out_name), Mp3) =>
           Len(splitext(out_name)[1]) < Len(out_name)
    /\ call.op = "extract_audio" /\ Returned /\ Runs # {} =>
           \A i \in Runs :
               LET dest == events[i].path
               IN  /\ EndsWith(dest, Mp3)
                   /\ ~EndsWith(Lower(SubSeq(dest, 1, Len(dest) - Len(Mp3))), Mp3)

\* C10: the only path an operation removes is the destination it is about to
\* write, right before the tool is run for it, and it is never the source mov.
OverwriteKeepsSource ==
    \A i \in Removes :
        /\ events[i].path # call.mov
        /\ i < Len(events)
        /\ events[i + 1].ev = "run" /\ events[i + 1].path = events[i].path

====
